---- MODULE Spec2Model ----
(***************************************************************************)
(* The resilient execution engine of functions.py: DriverState, the        *)
(* with_retries decorator, the built-in steps, step_from_action, pipe and  *)
(* run_block, inside the browser session of firefox_driver.  Durations are *)
(* in tenths of a second (0.6 s = 6).                                      *)
(***************************************************************************)
EXTENDS Integers, Sequences, FiniteSets, TLC

\* ------------------------------------------------------------------ bounds
MaxActions == 3
MaxBlockAttempts == 3
MaxRetryAttempts == 3
MaxPipeSteps == 2

\* ------------------------------------------------------- program constants
DefaultAttempts == 4
DefaultBaseDelay == 6
KeypadAttempts == 5
KeypadBaseDelay == 5
DefaultBlockDelay == 50

None == "None"

\* --------------------------------------------------------------- failures
Failure(kind, msg) == [kind |-> kind, msg |-> msg]

NoExc == Failure(None, None)

\* with_retries' default retry_on tuple
DefaultRetryOn ==
    { "StaleElementReferenceException", "ElementClickInterceptedException",
      "ElementNotInteractableException", "TimeoutException",
      "NoSuchElementException" }

\* What a driver operation may raise: two retryable failures and one that is
\* an Exception outside retry_on.
DriverFailures ==
    { Failure("TimeoutException", "timeout"),
      Failure("StaleElementReferenceException", "stale"),
      Failure("WebDriverException", "crash") }

\* raise NoSuchElementException(f"No encontrado: ...") of wait_clickable
NotFound == Failure("NoSuchElementException", "No encontrado")

\* raise ValueError(f"Action type no soportado: {at}") of step_from_action
Unsupported == Failure("ValueError", "Action type no soportado")

\* `raise last_exc` with last_exc = None is a TypeError
RaiseOf(exc) ==
    IF exc = NoExc
      THEN Failure("TypeError", "exceptions must derive from BaseException")
      ELSE exc

\* str(e)
Str(e) == e.msg

\* ------------------------------------------------------------ DriverState
DriverState(driver, scope, last, warnings) ==
    [driver |-> driver, scope |-> scope, last |-> last, warnings |-> warnings]

NoState == DriverState(None, None, None, <<>>)

\* only the fields passed are kept; the others fall back to the defaults of
\* DriverState
with_updates_Defaults(self, updates) ==
    DriverState(
        IF "driver" \in DOMAIN updates THEN updates.driver ELSE None,
        IF "scope" \in DOMAIN updates THEN updates.scope ELSE None,
        IF "last" \in DOMAIN updates THEN updates.last ELSE None,
        IF "warnings" \in DOMAIN updates THEN updates.warnings ELSE <<>>)

\* the warnings are kept only when they are passed
with_updates_NoWarnings(self, updates) ==
    DriverState(
        IF "driver" \in DOMAIN updates THEN updates.driver ELSE self.driver,
        IF "scope" \in DOMAIN updates THEN updates.scope ELSE self.scope,
        IF "last" \in DOMAIN updates THEN updates.last ELSE self.last,
        IF "warnings" \in DOMAIN updates THEN updates.warnings ELSE <<>>)

with_updates(self, updates) ==
    DriverState(
        IF "driver" \in DOMAIN updates THEN updates.driver ELSE self.driver,
        IF "scope" \in DOMAIN updates THEN updates.scope ELSE self.scope,
        IF "last" \in DOMAIN updates THEN updates.last ELSE self.last,
        IF "warnings" \in DOMAIN updates THEN updates.warnings ELSE self.warnings)

update_last(st, el) == with_updates(st, [last |-> el])

\* the error of a failed block is added to the warnings of the result
ScrapingResult_ErrorWarned(successful, error, warnings, last_result) ==
    [successful |-> successful, error |-> error,
     warnings |-> IF error = None THEN warnings ELSE Append(warnings, error),
     last_result |-> last_result]

ScrapingResult(successful, error, warnings, last_result) ==
    [successful |-> successful, error |-> error,
     warnings |-> warnings, last_result |-> last_result]

NoResult == ScrapingResult(FALSE, None, <<>>, None)

\* ---------------------------------------------------------------- backoff
RECURSIVE Pow2(_)
Pow2(n) == IF n <= 0 THEN 1 ELSE 2 * Pow2(n - 1)

\* time.sleep(base_delay * (2 ** (i - 1)))
Backoff(base_delay, n) == base_delay * Pow2(n - 1)

\* --------------------------------------------------------- ScrapingAction
\* the fields of a ScrapingAction that a step reads or that select a search
\* root; keys_to_send is a sequence of characters
ScrapingAction(action_type, target_element, keys_to_send) ==
    [action_type |-> action_type, target_element |-> target_element,
     keys_to_send |-> keys_to_send]

\* a step built without a ScrapingAction (navigate, url_to_be)
NoAction == ScrapingAction(None, None, <<>>)

\* ------------------------------------------------------------- dispatcher
Policy(n, d, r) == [attempts |-> n, base_delay |-> d, retry_on |-> r]

DefaultPolicy == Policy(DefaultAttempts, DefaultBaseDelay, DefaultRetryOn)

KeypadPolicy == Policy(KeypadAttempts, KeypadBaseDelay, DefaultRetryOn)

StepOf(fn, click) == [ok |-> TRUE, fn |-> fn, click |-> click, exc |-> NoExc]

\* a tag that is not known falls back to wait_visible
step_from_action_Default(action) ==
    LET at == action.action_type IN
    IF at = "wait_visible" THEN StepOf("wait_visible", FALSE)
    ELSE IF at = "wait_invisible" THEN StepOf("wait_invisible", FALSE)
    ELSE IF at = "click" THEN StepOf("wait_clickable", TRUE)
    ELSE IF at = "safe_send_keys" THEN StepOf("safe_send_keys", FALSE)
    ELSE IF at = "switch_to_iframe" THEN StepOf("switch_to_iframe", FALSE)
    ELSE IF at = "select_option" THEN StepOf("select_option_by_value", FALSE)
    ELSE IF at = "focus_input" THEN StepOf("focus_input", FALSE)
    ELSE IF at = "keyboard_type" THEN StepOf("keyboard_type_digits", FALSE)
    ELSE IF at = "keyboard_accept" THEN StepOf("keyboard_accept", FALSE)
    ELSE IF at = "extract_appointment_date"
      THEN StepOf("extract_first_pending_appointment", FALSE)
    ELSE IF at = "extract_tab_date" THEN StepOf("extract_tab_date", FALSE)
    ELSE StepOf("wait_visible", FALSE)

step_from_action(action) ==
    LET at == action.action_type IN
    IF at = "wait_visible" THEN StepOf("wait_visible", FALSE)
    ELSE IF at = "wait_invisible" THEN StepOf("wait_invisible", FALSE)
    ELSE IF at = "click" THEN StepOf("wait_clickable", TRUE)
    ELSE IF at = "safe_send_keys" THEN StepOf("safe_send_keys", FALSE)
    ELSE IF at = "switch_to_iframe" THEN StepOf("switch_to_iframe", FALSE)
    ELSE IF at = "select_option" THEN StepOf("select_option_by_value", FALSE)
    ELSE IF at = "focus_input" THEN StepOf("focus_input", FALSE)
    ELSE IF at = "keyboard_type" THEN StepOf("keyboard_type_digits", FALSE)
    ELSE IF at = "keyboard_accept" THEN StepOf("keyboard_accept", FALSE)
    ELSE IF at = "extract_appointment_date"
      THEN StepOf("extract_first_pending_appointment", FALSE)
    ELSE IF at = "extract_tab_date" THEN StepOf("extract_tab_date", FALSE)
    ELSE [ok |-> FALSE, fn |-> None, click |-> FALSE, exc |-> Unsupported]

\* every step decorated with two attempts
PolicyOf_TwoAttempts(fn) == Policy(2, DefaultBaseDelay, DefaultRetryOn)

\* the @with_retries(...) decoration of each step constructor
PolicyOf(fn) ==
    IF fn \in {"keyboard_type_digits", "keyboard_accept"}
      THEN KeypadPolicy
      ELSE DefaultPolicy

\* ------------------------------------------------------------- step bodies
\* _ctx(state)
ctx(st) == IF st.scope # None THEN st.scope ELSE st.driver

\* the steps that resolve their element with _wait / _find_all
UsesCtx(fn) ==
    fn \in {"wait_visible", "wait_clickable", "select_option_by_value",
            "focus_input", "extract_first_pending_appointment",
            "extract_tab_date"}

\* the context handed to WebDriverWait / find_elements by a step body
SearchRoot(fn, st, action) == IF UsesCtx(fn) THEN ctx(st) ELSE st.driver

Elements == {"el1"}

Texts == {"", "2025-11-15"}

\* what the driver hands a step body that completes
BodyValues(fn) ==
    IF fn = "extract_first_pending_appointment"
      THEN {"dict:" \o t : t \in Texts}
    ELSE IF fn = "extract_tab_date" THEN Texts
    ELSE Elements

\* what a step body may raise
BodyFailures(fn) ==
    IF fn = "wait_clickable" THEN DriverFailures \cup {NotFound}
    ELSE DriverFailures

\* a step that resolves an element also makes it the scope, and a step that
\* resolves none clears `last`
BodyReturn_MovesScope(fn, st, v) ==
    IF fn \in {"wait_visible", "wait_clickable", "select_option_by_value",
               "focus_input", "extract_first_pending_appointment",
               "extract_tab_date"}
      THEN with_updates(st, [last |-> v, scope |-> v])
    ELSE with_updates(st, [last |-> None])

\* the state a step body returns
BodyReturn(fn, st, v) ==
    IF fn \in {"wait_visible", "wait_clickable", "select_option_by_value",
               "focus_input"}
      THEN update_last(st, v)
    ELSE IF fn \in {"extract_first_pending_appointment", "extract_tab_date"}
      THEN with_updates(st, [last |-> v])
    ELSE st

\* ------------------------------------------------------------------ state
VARIABLES
    entry,               \* "run_block" or "pipe": the function called
    pc,                  \* position in the code
    state,               \* run_block's `state` argument / pipe's `state`
    actions,             \* run_block's action list
    attempts,            \* run_block's `attempts`
    delay,               \* run_block's `delay`
    before_retry_block,  \* TRUE when a recovery hook is given
    steps,               \* pipe's steps
    policy,              \* with_retries arguments of pipe's decorated step
    i,                   \* run_block's loop variable
    idx,                 \* position in `actions` / `steps`
    s,                   \* run_block's working state
    last_state, last_error, ok,
    frames,              \* active _wrapped calls, innermost last
    ret,                 \* outcome of the last call that finished
    result,              \* the ScrapingResult run_block returns
    touched,             \* a step body has run against the driver
    hookCalls,           \* calls of before_retry_block
    blockSlept,          \* total of run_block's time.sleep(delay)
    blockSleeps,         \* number of run_block's time.sleep(delay)
    retry,               \* the block retry under way: what the failed attempt
                         \* left behind and how the hook ended
    onScriptA,           \* every answer of the driver so far is the one
                         \* Scenario A prescribes
    root,                \* the context of the last element search of the
                         \* step under way
    waits,               \* element-resolution waits of the step under way
    clicks,              \* keypad buttons clicked by the step under way
    session,             \* the browser session of firefox_driver
    quits                \* calls of driver.quit()

vars == <<entry, pc, state, actions, attempts, delay, before_retry_block,
          steps, policy, i, idx, s, last_state, last_error, ok, frames, ret,
          result, touched, hookCalls, blockSlept, blockSleeps, retry,
          onScriptA, root, waits, clicks, session, quits>>

params == <<entry, actions, attempts, delay, before_retry_block, steps, policy>>

blockVars == <<i, s, last_state, last_error, ok, result>>

ghostVars == <<hookCalls, blockSlept, blockSleeps, retry>>

stepVars == <<root, waits, clicks>>

driverVars == <<session, quits>>

\* -------------------------------------------------------------- call outcomes
Returned(st) == [kind |-> "ok", state |-> st, exc |-> NoExc, via |-> None]

Raised(e, via) == [kind |-> "exc", state |-> NoState, exc |-> e, via |-> via]

NoRet == [kind |-> None, state |-> NoState, exc |-> NoExc, via |-> None]

NoRetry == [partial |-> NoState, hook |-> None]

\* ------------------------------------------------------------------ inputs
\* action types the lists are drawn from: a default-policy step, a keypad
\* step, and a tag the dispatcher does not know
TestKinds == {"wait_visible", "keyboard_accept", "bogus"}

\* the tags step_from_action knows
KnownTags ==
    { "wait_visible", "wait_invisible", "click", "safe_send_keys",
      "switch_to_iframe", "select_option", "focus_input", "keyboard_type",
      "keyboard_accept", "extract_appointment_date", "extract_tab_date" }

\* every tag with default fields, the two interact steps with an explicit
\* target_element, and a keypad entry of two digits
AllActions ==
    { ScrapingAction(k, None, <<>>) : k \in KnownTags \cup {"bogus"} }
      \cup { ScrapingAction(k, "elT", <<>>) : k \in {"click", "safe_send_keys"} }
      \cup { ScrapingAction("keyboard_type", None, <<"1", "2">>) }

ListsOver(acts, n) == UNION { [1..m -> acts] : m \in 1..n }

\* lists of up to MaxActions actions over TestKinds, and the lists of one
\* action of every kind
ActionLists ==
    ListsOver({ScrapingAction(k, None, <<>>) : k \in TestKinds}, MaxActions)
      \cup { <<a>> : a \in AllActions }

\* DriverState(driver=drv), as main builds it
FreshState == DriverState("drv", None, None, <<>>)

\* a state an earlier pipeline left behind
UsedState == DriverState("drv", "el0", "el0", <<"w0">>)

PipeKinds == {"navigate", "url_to_be", "step_fn", "wait_visible"}

PipeLists == UNION { [1..n -> PipeKinds] : n \in 1..MaxPipeSteps }

Policies ==
    { Policy(n, d, r) :
        n \in 0..MaxRetryAttempts,
        d \in {0, KeypadBaseDelay, DefaultBaseDelay},
        r \in {DefaultRetryOn, {"TimeoutException"}} }

Init ==
    /\ entry \in {"run_block", "pipe"}
    /\ IF entry = "run_block"
         THEN /\ state = UsedState
              /\ actions \in ActionLists
              /\ attempts \in 0..MaxBlockAttempts
              /\ before_retry_block \in BOOLEAN
              /\ steps = <<>>
              /\ policy = DefaultPolicy
              /\ pc = "rb_for"
         ELSE /\ state \in {FreshState, UsedState}
              /\ actions = <<>>
              /\ attempts = 0
              /\ before_retry_block = FALSE
              /\ steps \in PipeLists
              /\ policy \in Policies
              /\ pc = "pipe_for"
    /\ delay = DefaultBlockDelay
    /\ i = 0
    /\ idx = 1
    /\ s = NoState
    /\ last_state = state
    /\ last_error = None
    /\ ok = TRUE
    /\ frames = <<>>
    /\ ret = NoRet
    /\ result = NoResult
    /\ touched = FALSE
    /\ hookCalls = 0
    /\ blockSlept = 0
    /\ blockSleeps = 0
    /\ retry = NoRetry
    /\ onScriptA = TRUE
    /\ root = None
    /\ waits = 0
    /\ clicks = <<>>
    /\ session = "open"
    /\ quits = 0

\* ------------------------------------------------------------ with_retries
Top == frames[Len(frames)]

SetTop(fs, f) == [fs EXCEPT ![Len(fs)] = f]

Pop(fs) == SubSeq(fs, 1, Len(fs) - 1)

\* step_fn(state, logger) is entered once more
Called(fs) == SetTop(fs, [fs[Len(fs)] EXCEPT !.calls = @ + 1])

\* _wrapped is entered with `state`: last_exc = None, the loop not started
\* `action` is the ScrapingAction the step was built from, `pos` the digit
\* keyboard_type_digits is at; `raised` is the failure of the latest
\* invocation of step_fn that was caught
Frame(fn, click, pol, st, action) ==
    [fn |-> fn, click |-> click, attempts |-> pol.attempts,
     base_delay |-> pol.base_delay, retry_on |-> pol.retry_on,
     i |-> 0, last_exc |-> NoExc, state |-> st, local |-> NoState,
     calls |-> 0, slept |-> 0, action |-> action, pos |-> 1,
     raised |-> NoExc]

\* range(1, attempts): one try short
MoreAttempts_OneShort(f) == f.i < f.attempts - 1

\* for i in range(1, attempts + 1)
MoreAttempts(f) == f.i < f.attempts

\* except Exception as e: every failure is retried
Caught_Everything(f, e) == TRUE

\* except retry_on as e
Caught(f, e) == e.kind \in f.retry_on

\* the sleep of the except clause
RetrySleep(f) == Backoff(f.base_delay, f.i)

\* the first failure is the one kept for the raise after the loop
Kept_First(f, e) == IF f.last_exc = NoExc THEN e ELSE f.last_exc

\* last_exc = e
Kept(f, e) == e

\* step_fn raised e inside the try of the frame on top of fs
AfterRaise(fs, e) ==
    LET f == fs[Len(fs)] IN
    IF Caught(f, e)
      THEN [frames |-> SetTop(fs, [f EXCEPT !.last_exc = Kept(f, e),
                                            !.slept = @ + RetrySleep(f),
                                            !.raised = e]),
            pc |-> "w_for", ret |-> ret, event |-> "retryable"]
      ELSE [frames |-> fs, pc |-> "w_ret", ret |-> Raised(e, "propagated"),
            event |-> "fatal"]

\* _wrapped returns the state it was called with instead of the one step_fn
\* returned
AfterReturn_Input(fs, st) ==
    [frames |-> fs, pc |-> "w_ret", ret |-> Returned(fs[Len(fs)].state),
     event |-> "ok"]

\* step_fn returned st inside the try of the frame on top of fs
AfterReturn(fs, st) ==
    [frames |-> fs, pc |-> "w_ret", ret |-> Returned(st), event |-> "ok"]

\* Scenario A: in the first block attempt action 1 answers at once, action 2
\* fails twice with a retryable failure and answers the third time, action 3
\* answers at once.  Defined for these invocations only.
ScenarioA(k, n) ==
    IF k = 2 /\ n \in {1, 2} THEN "retryable"
    ELSE IF (k = 2 /\ n = 3) \/ (k \in {1, 3} /\ n = 1) THEN "ok"
    ELSE None

\* the outcome of the step of action idx agrees with Scenario A
Observe(after) ==
    LET n == after.frames[1].calls IN
    IF entry = "run_block" /\ i = 1 /\ Len(after.frames) = 1
         /\ ScenarioA(idx, n) # None
      THEN onScriptA /\ after.event = ScenarioA(idx, n)
      ELSE onScriptA

Apply(after) ==
    /\ frames' = after.frames
    /\ pc' = after.pc
    /\ ret' = after.ret
    /\ onScriptA' = Observe(after)

\* loop head of _wrapped: the next try, or the raise after the loop
Wrapped_For ==
    /\ pc = "w_for"
    /\ IF MoreAttempts(Top)
         THEN /\ frames' = SetTop(frames, [Top EXCEPT !.i = @ + 1])
              /\ pc' = "fn"
              /\ ret' = ret
         ELSE /\ frames' = frames
              /\ pc' = "w_ret"
              /\ ret' = Raised(RaiseOf(Top.last_exc), "exhausted")
    /\ UNCHANGED <<params, state, idx, blockVars, touched, ghostVars, onScriptA,
                   stepVars, driverVars>>

\* the body of every step but safe_send_keys: driver operations that end in a
\* value or in a failure
Step_Body ==
    /\ pc = "fn"
    /\ Top.fn \notin {"safe_send_keys", "keyboard_type_digits"}
    /\ \/ \E v \in BodyValues(Top.fn) :
            Apply(AfterReturn(Called(frames), BodyReturn(Top.fn, Top.state, v)))
       \/ \E e \in BodyFailures(Top.fn) :
            Apply(AfterRaise(Called(frames), e))
    /\ touched' = TRUE
    /\ root' = SearchRoot(Top.fn, Top.state, Top.action)
    /\ waits' = waits + 1
    /\ clicks' = clicks
    /\ UNCHANGED <<params, state, idx, blockVars, ghostVars,
                   driverVars>>

\* keyboard_type_digits: the wait for the visible keyset, under the driver;
\* without digits the step returns at once
Keyboard_Keyset ==
    /\ pc = "fn"
    /\ Top.fn = "keyboard_type_digits"
    /\ LET called == SetTop(Called(frames), [Called(frames)[Len(frames)] EXCEPT !.pos = 1]) IN
       \/ \E e \in BodyFailures(Top.fn) : Apply(AfterRaise(called, e))
       \/ IF Top.action.keys_to_send = <<>>
            THEN Apply(AfterReturn(called, Top.state))
            ELSE /\ frames' = called
                 /\ pc' = "kb_digit"
                 /\ ret' = ret
                 /\ onScriptA' = onScriptA
    /\ touched' = TRUE
    /\ root' = SearchRoot(Top.fn, Top.state, Top.action)
    /\ waits' = waits + 1
    /\ clicks' = clicks
    /\ UNCHANGED <<params, state, idx, blockVars, ghostVars, driverVars>>

\* keyboard_type_digits, for d in digits: wait for the button of d under the
\* keyset, then btn.click()
Keyboard_Digit ==
    /\ pc = "kb_digit"
    /\ LET digits == Top.action.keys_to_send IN
       \/ /\ \E e \in BodyFailures(Top.fn) : Apply(AfterRaise(frames, e))
          /\ clicks' = clicks
       \/ /\ clicks' = Append(clicks, digits[Top.pos])
          /\ IF Top.pos = Len(digits)
               THEN Apply(AfterReturn(frames, Top.state))
               ELSE /\ frames' = SetTop(frames, [Top EXCEPT !.pos = @ + 1])
                    /\ pc' = pc
                    /\ ret' = ret
                    /\ onScriptA' = onScriptA
    /\ UNCHANGED <<params, state, idx, blockVars, touched, ghostVars, root,
                   waits, driverVars>>

\* safe_send_keys: s2 = wait_clickable(action, click=False)(state, logger)
SafeSendKeys_Call ==
    /\ pc = "fn"
    /\ Top.fn = "safe_send_keys"
    /\ frames' = Append(Called(frames), Frame("wait_clickable", FALSE,
                                              PolicyOf("wait_clickable"), Top.state,
                                              Top.action))
    /\ pc' = "w_for"
    /\ UNCHANGED <<params, state, idx, blockVars, ret, touched, ghostVars, onScriptA,
                   stepVars, driverVars>>

\* the inner _wrapped of safe_send_keys ends: s2 is bound, or its failure
\* reaches the try of the outer _wrapped
SafeSendKeys_Resume ==
    /\ pc = "w_ret"
    /\ Len(frames) >= 2
    /\ LET outer == Pop(frames) IN
       IF ret.kind = "ok"
         THEN /\ frames' = SetTop(outer, [outer[Len(outer)] EXCEPT !.local = ret.state])
              /\ pc' = "ssk_send"
              /\ ret' = ret
              /\ onScriptA' = onScriptA
         ELSE Apply(AfterRaise(outer, ret.exc))
    /\ UNCHANGED <<params, state, idx, blockVars, touched, ghostVars,
                   stepVars, driverVars>>

\* safe_send_keys: el.clear(); el.send_keys(...); return s2
SafeSendKeys_Send ==
    /\ pc = "ssk_send"
    /\ \/ Apply(AfterReturn(frames, Top.local))
       \/ \E e \in DriverFailures : Apply(AfterRaise(frames, e))
    /\ UNCHANGED <<params, state, idx, blockVars, touched, ghostVars,
                   stepVars, driverVars>>

\* ---------------------------------------------------------------- run_block
\* the next attempt goes on from the working state of the failed one
AttemptStart_Partial == IF i = 0 THEN last_state ELSE s

\* s = last_state
AttemptStart == last_state

\* the first failure is kept as the block's error
ErrorOf_First(e) == IF last_error = None THEN Str(e) ELSE last_error

\* last_error = str(e)
ErrorOf(e) == Str(e)

\* the state run_block returns
ReturnedState == last_state

\* for i in range(1, attempts + 1): try: s = last_state
RunBlock_For ==
    /\ pc = "rb_for"
    /\ IF i < attempts
         THEN /\ i' = i + 1
              /\ s' = AttemptStart
              /\ idx' = 1
              /\ pc' = "rb_act"
         ELSE /\ pc' = "rb_result"
              /\ UNCHANGED <<i, s, idx>>
    /\ UNCHANGED <<params, state, last_state, last_error, ok, result, frames,
                   ret, touched, ghostVars, onScriptA,
                   stepVars, driverVars>>

\* for act in actions: step = step_from_action(act); s = step(s, logger)
RunBlock_Dispatch ==
    /\ pc = "rb_act"
    /\ idx <= Len(actions)
    /\ LET step == step_from_action(actions[idx]) IN
       IF step.ok
         THEN /\ frames' = <<Frame(step.fn, step.click, PolicyOf(step.fn), s,
                                actions[idx])>>
              /\ pc' = "w_for"
              /\ ret' = ret
         ELSE /\ frames' = frames
              /\ pc' = "rb_except"
              /\ ret' = Raised(step.exc, "construction")
    /\ retry' = NoRetry
    /\ UNCHANGED <<stepVars, params, state, idx, blockVars, touched, hookCalls,
                   blockSlept, blockSleeps, onScriptA,
                   driverVars>>

\* the step returns or raises into run_block's try
RunBlock_Resume ==
    /\ pc = "w_ret"
    /\ Len(frames) = 1
    /\ entry = "run_block"
    /\ frames' = <<>>
    /\ root' = None
    /\ waits' = 0
    /\ clicks' = <<>>
    /\ IF ret.kind = "ok"
         THEN /\ s' = ret.state
              /\ idx' = idx + 1
              /\ pc' = "rb_act"
         ELSE /\ pc' = "rb_except"
              /\ UNCHANGED <<s, idx>>
    /\ UNCHANGED <<params, state, i, last_state, last_error, ok, result, ret,
                   touched, ghostVars, onScriptA,
                   driverVars>>

\* every action ran: last_state = s; ok = True; last_error = None; break
RunBlock_Success ==
    /\ pc = "rb_act"
    /\ idx > Len(actions)
    /\ last_state' = s
    /\ ok' = TRUE
    /\ last_error' = None
    /\ pc' = "rb_result"
    /\ retry' = NoRetry
    /\ UNCHANGED <<params, state, i, idx, s, result, frames, ret, touched,
                   hookCalls, blockSlept, blockSleeps, onScriptA,
                   stepVars, driverVars>>

\* except Exception as e: ok = False; last_error = str(e)
RunBlock_Except ==
    /\ pc = "rb_except"
    /\ ok' = FALSE
    /\ last_error' = ErrorOf(ret.exc)
    /\ pc' = IF before_retry_block THEN "rb_hook" ELSE "rb_sleep"
    /\ retry' = [partial |-> s, hook |-> None]
    /\ UNCHANGED <<params, state, i, idx, s, last_state, result, frames, ret,
                   touched, hookCalls, blockSlept, blockSleeps, onScriptA,
                   stepVars, driverVars>>

\* the hook's failure leaves run_block
HookFailed_Propagates == "raised"

\* the hook's failure ends the retry loop
HookFailed_Aborts == "rb_result"

\* where run_block goes when before_retry_block() raises: the failure is
\* logged as a warning
HookFailed == "rb_sleep"

\* try: before_retry_block() except Exception as be: logger.warning(...)
RunBlock_Hook ==
    /\ pc = "rb_hook"
    /\ hookCalls' = hookCalls + 1
    /\ \/ /\ pc' = "rb_sleep"
          /\ retry' = [retry EXCEPT !.hook = "returned"]
       \/ /\ pc' = HookFailed
          /\ retry' = [retry EXCEPT !.hook = "raised"]
    /\ UNCHANGED <<params, state, idx, blockVars, frames, ret, touched,
                   blockSlept, blockSleeps, onScriptA,
                   stepVars, driverVars>>

\* the block delay doubles with every failed attempt
BlockSleep_Growing == delay * Pow2(i - 1)

\* the argument of time.sleep(delay) after the failed attempt i
BlockSleep == delay

\* time.sleep(delay)
RunBlock_Sleep ==
    /\ pc = "rb_sleep"
    /\ blockSlept' = blockSlept + BlockSleep
    /\ blockSleeps' = blockSleeps + 1
    /\ pc' = "rb_for"
    /\ UNCHANGED <<params, state, idx, blockVars, frames, ret, touched,
                   hookCalls, retry, onScriptA,
                   stepVars, driverVars>>

\* result = ScrapingResult(...); return last_state, result
RunBlock_Result ==
    /\ pc = "rb_result"
    /\ result' = ScrapingResult(ok, last_error, last_state.warnings, last_state.last)
    /\ pc' = "done"
    /\ UNCHANGED <<params, state, i, idx, s, last_state, last_error, ok,
                   frames, ret, touched, ghostVars, onScriptA,
                   stepVars, driverVars>>

\* --------------------------------------------------------------------- pipe
\* the decoration of a step of pipe
PipePolicy(fn) == IF fn = "step_fn" THEN policy ELSE DefaultPolicy

\* for step in steps: state = step(state, logger); return state
Pipe_For ==
    /\ pc = "pipe_for"
    /\ IF idx > Len(steps)
         THEN /\ pc' = "done"
              /\ frames' = frames
         ELSE IF steps[idx] = "navigate"
                THEN /\ pc' = "navigate"
                     /\ frames' = frames
                ELSE /\ pc' = "w_for"
                     /\ frames' = <<Frame(steps[idx], FALSE,
                                          PipePolicy(steps[idx]), state,
                                          NoAction)>>
    /\ UNCHANGED stepVars
    /\ UNCHANGED <<params, state, idx, blockVars, ret, touched, ghostVars, onScriptA,
                   driverVars>>

\* navigate: state.driver.get(url); return state  (not decorated)
Pipe_Navigate ==
    /\ pc = "navigate"
    /\ touched' = TRUE
    /\ \/ /\ pc' = "pipe_for"
          /\ idx' = idx + 1
          /\ ret' = Returned(state)
       \/ \E e \in DriverFailures :
          /\ pc' = "raised"
          /\ idx' = idx
          /\ ret' = Raised(e, "propagated")
    /\ UNCHANGED <<params, state, blockVars, frames, ghostVars, onScriptA,
                   stepVars, driverVars>>

\* a decorated step returns to pipe, or its failure leaves pipe
Pipe_Resume ==
    /\ pc = "w_ret"
    /\ Len(frames) = 1
    /\ entry = "pipe"
    /\ frames' = <<>>
    /\ root' = None
    /\ waits' = 0
    /\ clicks' = <<>>
    /\ IF ret.kind = "ok"
         THEN /\ state' = ret.state
              /\ idx' = idx + 1
              /\ pc' = "pipe_for"
         ELSE /\ pc' = "raised"
              /\ UNCHANGED <<state, idx>>
    /\ UNCHANGED <<params, blockVars, ret, touched, ghostVars, onScriptA,
                   driverVars>>

\* ----------------------------------------------------------- firefox_driver
\* the finally of firefox_driver is skipped when the body raises
FinallyRuns_OnReturn(p) == p = "done"

\* try: yield driver  finally: driver.quit(), for the body's way out p
FinallyRuns(p) == p \in {"done", "raised"}

\* the body of `with firefox_driver(...) as drv` ends, by return or by a
\* failure that leaves it
FirefoxDriver_Exit ==
    /\ pc \in {"done", "raised"}
    /\ IF FinallyRuns(pc)
         THEN /\ session' = "closed"
              /\ quits' = quits + 1
         ELSE UNCHANGED <<session, quits>>
    /\ pc' = IF pc = "done" THEN "exit" ELSE "exit_raised"
    /\ UNCHANGED <<params, state, idx, blockVars, frames, ret, touched,
                   ghostVars, onScriptA, stepVars>>

\* ------------------------------------------------------------ specification
Next ==
    \/ Wrapped_For
    \/ Step_Body
    \/ Keyboard_Keyset
    \/ Keyboard_Digit
    \/ SafeSendKeys_Call
    \/ SafeSendKeys_Resume
    \/ SafeSendKeys_Send
    \/ RunBlock_For
    \/ RunBlock_Dispatch
    \/ RunBlock_Resume
    \/ RunBlock_Success
    \/ RunBlock_Except
    \/ RunBlock_Hook
    \/ RunBlock_Sleep
    \/ RunBlock_Result
    \/ Pipe_For
    \/ Pipe_Navigate
    \/ Pipe_Resume
    \/ FirefoxDriver_Exit

Spec == Init /\ [][Next]_vars

\* ------------------------------------------------------------------ claims
InBlock == entry = "run_block"

\* the outermost _wrapped has just ended
Ended == pc = "w_ret"

\* d * (2^0 + ... + 2^(n-2)), the backoff of n - 1 sleeps
BackoffSum(d, n) == d * (Pow2(n - 1) - 1)

Known(l) == \A k \in 1..Len(l) : step_from_action(l[k]).ok

\* C1: block restart.  Every block attempt starts its first action from the
\* DriverState passed to run_block; after a failed attempt that had advanced
\* the working state, the next attempt does not go on from that state.
C1_BlockRestart ==
    (InBlock /\ pc = "rb_act" /\ idx = 1)
        => /\ s = state
           /\ (retry.partial # state => s # retry.partial)

C1_Witness ==
    /\ InBlock /\ pc = "rb_act" /\ idx = 1 /\ i >= 2
    /\ retry.partial \notin {NoState, state}
    /\ s = state

\* C2: block exhaustion.  When run_block returns after its last attempt
\* failed, so that every attempt failed, the returned state is the state
\* given on entry, result.successful is false and result.error is the message
\* of the failure raised in the last attempt.
C2_BlockExhaustion ==
    (InBlock /\ pc = "done" /\ ret.kind = "exc")
        => /\ i = attempts
           /\ ReturnedState = state
           /\ result.successful = FALSE
           /\ result.error = Str(ret.exc)

C2_Witness ==
    /\ InBlock /\ pc = "done" /\ attempts = 3 /\ blockSleeps = 3
    /\ ret.kind = "exc" /\ ret.via = "exhausted"
    /\ retry.partial # state
    /\ ReturnedState = state /\ ~result.successful /\ result.error = "stale"

\* C3: a decorated step that fails with a retryable failure on every
\* invocation is invoked exactly `attempts` times (attempts >= 1), and only
\* then does _wrapped raise; while tries are left it has made one call per
\* try.
C3_InvokedExactlyN ==
    /\ (Ended /\ ret.via = "exhausted" /\ Top.attempts >= 1)
          => (Top.calls = Top.attempts /\ ret.exc = Top.last_exc)
    /\ (pc = "w_for" => (Top.calls = Top.i /\ Top.calls <= Top.attempts))

C3_Witness ==
    /\ entry = "pipe" /\ Ended /\ ret.via = "exhausted"
    /\ Top.fn = "step_fn" /\ Top.attempts = 3 /\ Top.calls = 3

\* C4: when every invocation fails with a retryable failure, the total
\* backoff slept by with_retries is d * (2^0 + ... + 2^(N-2)): no sleep
\* follows the last failed attempt.
C4_TotalBackoff ==
    (Ended /\ ret.via = "exhausted" /\ Top.attempts >= 1)
        => Top.slept = BackoffSum(Top.base_delay, Top.attempts)

\* C5: a failure whose kind is not in retry_on leaves _wrapped at once: it is
\* the failure raised, no sleep follows it (the time slept is that of the
\* retryable failures before it: none when it is the first invocation), the
\* step is not invoked again, and a failure that was retried is always of a
\* kind in retry_on.
C5_NotRetryable ==
    /\ (Ended /\ ret.via = "propagated")
          => /\ ret.exc.kind \notin Top.retry_on
             /\ Top.calls = Top.i
             /\ Top.slept = BackoffSum(Top.base_delay, Top.i)
             /\ (Top.i = 1 => (Top.calls = 1 /\ Top.slept = 0))
    /\ \A k \in 1..Len(frames) :
          frames[k].last_exc # NoExc => frames[k].last_exc.kind \in frames[k].retry_on

C5_Witness ==
    /\ Ended /\ ret.via = "propagated" /\ Len(frames) = 1
    /\ Top.attempts >= 2 /\ Top.base_delay > 0
    /\ Top.calls = 1 /\ Top.slept = 0
    /\ ret.exc.kind = "StaleElementReferenceException"

\* C6: Scenario C.  When the action list holds an action of unrecognized
\* action_type, no step is invoked against the driver and the working state
\* never leaves the state given on entry.
C6_NothingRunsBeforeDispatchFails ==
    (InBlock /\ ~Known(actions))
        => /\ ~touched
           /\ s \in {NoState, state}

\* C7: a Construction failure is never retried: once step_from_action has
\* raised, run_block calls no recovery hook, sleeps no block delay and makes
\* no further attempt.
C7_ConstructionIsFatal ==
    [][(InBlock /\ ret.via = "construction")
          => (hookCalls' = hookCalls /\ blockSleeps' = blockSleeps /\ i' = i)]_vars

\* C8: run_block never raises: whatever failure a step, the dispatcher or the
\* recovery hook raises, control never leaves run_block with a failure, and
\* when it returns after failed attempts only, result.successful is false and
\* result.error is not None.
C8_NeverRaises ==
    InBlock
        => /\ pc \notin {"raised", "exit_raised"}
           /\ (pc = "done" /\ ret.kind = "exc")
                 => (result.successful = FALSE /\ result.error # None)

C8_Witness ==
    /\ InBlock /\ pc = "done" /\ ret.kind = "exc" /\ ret.via = "propagated"
    /\ retry.hook = "raised" /\ hookCalls = attempts
    /\ ~result.successful /\ result.error = "crash"

\* C9: Scenario D.  After the recovery hook raised, run_block still sleeps
\* the block delay, keeps the step's failure as the block's error, and goes
\* on to the next attempt, which starts from the state given on entry; the
\* loop ends only when the attempts are spent.
C9_HookFailureIsNotFatal ==
    (InBlock /\ retry.hook = "raised")
        => /\ pc \in {"rb_sleep", "rb_for", "rb_act", "rb_result", "done", "exit"}
           /\ last_error = Str(ret.exc)
           /\ ok = FALSE
           /\ (pc = "rb_sleep" => blockSleeps = i - 1)
           /\ (pc = "rb_for" => (blockSleeps = i /\ blockSlept = i * delay))
           /\ (pc = "rb_act" => (blockSleeps = i - 1 /\ idx = 1 /\ s = state))
           /\ (pc \in {"rb_result", "done", "exit"}
                 => (i = attempts /\ blockSleeps = i))

C9_Witness ==
    /\ InBlock /\ retry.hook = "raised" /\ pc = "rb_act" /\ i = 2
    /\ idx = 1 /\ s = state /\ blockSleeps = 1
    /\ last_error = "timeout" /\ retry.partial # state

\* C10: Scenario A.  A block of three recognized actions (steps of the
\* default policy, and of the keypad policy as well); as long as the driver
\* answers as Scenario A says (action 2 fails twice with a retryable failure
\* and succeeds the third time, actions 1 and 3 succeed at once), run_block
\* stays in its first attempt, never reaches the except clause, the hook or
\* the block delay, invokes action 1 and action 3 once and action 2 three
\* times, and returns successful = true with error None.
ScenarioAInputs ==
    InBlock /\ Len(actions) = 3 /\ Known(actions) /\ attempts >= 1

C10_ScenarioA ==
    (ScenarioAInputs /\ onScriptA)
        => /\ i <= 1
           /\ hookCalls = 0 /\ blockSleeps = 0 /\ blockSlept = 0
           /\ pc \notin {"rb_except", "rb_hook", "rb_sleep", "raised"}
           /\ (frames # <<>> => frames[1].calls <= (IF idx = 2 THEN 3 ELSE 1))
           /\ (Ended => (ret.kind = "ok"
                           /\ frames[1].calls = (IF idx = 2 THEN 3 ELSE 1)))
           /\ (pc = "done" => (i = 1 /\ result.successful = TRUE
                                /\ result.error = None
                                /\ ReturnedState = ret.state))

C10_Witness ==
    /\ ScenarioAInputs /\ onScriptA /\ pc = "done"
    /\ \A k \in 1..3 : actions[k].action_type = "wait_visible"
    /\ before_retry_block
    /\ result.successful /\ result.error = None /\ hookCalls = 0

\* C11: effective search root.  An Interact step (click, or safe_send_keys
\* through wait_clickable) resolves its element under the action's
\* target_element when that is set, else under the state's scope when that is
\* not None, else under the driver.
EffectiveRoot(action, st) ==
    IF action.target_element # None THEN action.target_element
    ELSE IF st.scope # None THEN st.scope
    ELSE st.driver

C11_EffectiveSearchRoot ==
    (InBlock /\ frames # <<>> /\ Top.fn = "wait_clickable" /\ root # None)
        => root = EffectiveRoot(Top.action, Top.state)

\* the DriverStates the program holds: arguments, working states, the states
\* steps were called with and the ones they returned
Produced ==
    ({state, last_state, s, ret.state}
        \cup { frames[k].state : k \in 1..Len(frames) }
        \cup { frames[k].local : k \in 1..Len(frames) }) \ {NoState}

\* C12: the driver handle is never altered.  Every DriverState held by a
\* step, by pipe or by run_block, whether an attempt succeeded or failed, has
\* the driver of the input state; and a state returned by a step, all of
\* which are built by with_updates(last=...), differs from the state the step
\* was called with in `last` at most.
C12_DriverNeverAltered ==
    /\ \A st \in Produced : st.driver = FreshState.driver
    /\ (Ended /\ ret.kind = "ok")
          => \A k \in 1..Len(frames) :
                /\ ret.state.driver = frames[k].state.driver
                /\ ret.state.scope = frames[k].state.scope
                /\ ret.state.warnings = frames[k].state.warnings

C12_Witness ==
    /\ InBlock /\ Ended /\ ret.kind = "ok" /\ i = 2 /\ idx = 2
    /\ ret.state.last # state.last
    /\ ret.state.driver = state.driver /\ ret.state.scope = state.scope
    /\ last_error # None

IsPrefix(a, b) == Len(a) <= Len(b) /\ SubSeq(b, 1, Len(a)) = a

\* C13: warnings are append-only along a state lineage.  In every step of
\* the program the warnings of pipe's state, of run_block's working state
\* and of the state run_block will return have their previous value as a
\* prefix, also when a failed block attempt is abandoned; and the state a
\* step returns has the warnings of the state it was called with as a prefix.
C13_WarningsAppendOnly ==
    [][ /\ IsPrefix(state.warnings, state'.warnings)
        /\ IsPrefix(last_state.warnings, last_state'.warnings)
        /\ (s # NoState => IsPrefix(s.warnings, s'.warnings))
        /\ (pc' = "w_ret" /\ ret'.kind = "ok")
              => \A k \in 1..Len(frames') :
                    IsPrefix(frames'[k].state.warnings, ret'.state.warnings)
      ]_vars

C13_Witness ==
    /\ InBlock /\ pc = "rb_act" /\ i = 2 /\ idx = 3
    /\ s # state /\ s.warnings = <<"w0">>
    /\ retry = NoRetry /\ last_error # None

\* the `with firefox_driver(...)` block has been left
Exited == pc \in {"exit", "exit_raised"}

\* C14: the session opened by firefox_driver is closed exactly once on every
\* way out of the owning scope.  driver.quit() is never called while the body
\* runs and never twice; once the body has ended, by return or by a failure
\* that escapes it, it has been called once; and after it no step is under
\* way.
C14_SessionClosedOnce ==
    /\ quits <= 1
    /\ (~Exited => (session = "open" /\ quits = 0))
    /\ (Exited => (session = "closed" /\ quits = 1))
    /\ (session = "closed" => (Exited /\ frames = <<>>))

C14_Witness ==
    /\ pc = "exit_raised" /\ entry = "pipe" /\ ret.via = "exhausted"
    /\ touched /\ session = "closed" /\ quits = 1

\* the step constructor of each recognized tag
ConstructorOf ==
    [ wait_visible |-> "wait_visible", wait_invisible |-> "wait_invisible",
      click |-> "wait_clickable", safe_send_keys |-> "safe_send_keys",
      switch_to_iframe |-> "switch_to_iframe",
      select_option |-> "select_option_by_value",
      focus_input |-> "focus_input", keyboard_type |-> "keyboard_type_digits",
      keyboard_accept |-> "keyboard_accept",
      extract_appointment_date |-> "extract_first_pending_appointment",
      extract_tab_date |-> "extract_tab_date" ]

\* C15: the dispatcher is exhaustive and never defaults silently.  A step is
\* under way in run_block only for an action whose tag is one of the eleven
\* recognized ones, and it is the step of the one constructor of that tag,
\* built from that action, whatever the other fields of the action are; an
\* action with any other tag is never given a step: its dispatch raises
\* ValueError.
C15_DispatcherExhaustive ==
    /\ (InBlock /\ frames # <<>>)
          => /\ actions[idx].action_type \in DOMAIN ConstructorOf
             /\ frames[1].fn = ConstructorOf[actions[idx].action_type]
             /\ frames[1].click = (actions[idx].action_type = "click")
             /\ frames[1].action = actions[idx]
    /\ (InBlock /\ pc = "rb_except"
           /\ actions[idx].action_type \notin DOMAIN ConstructorOf)
          => ret = Raised(Failure("ValueError", "Action type no soportado"),
                          "construction")
    /\ (InBlock /\ pc = "rb_except" /\ ret.via = "construction")
          => actions[idx].action_type \notin DOMAIN ConstructorOf

C15_Witness ==
    /\ InBlock /\ pc = "rb_except" /\ i = 1 /\ idx = 2 /\ touched
    /\ actions[1].action_type = "keyboard_accept"
    /\ actions[2].action_type = "bogus"
    /\ ret.via = "construction" /\ frames = <<>>

\* C17: no dispatched step is wrapped twice in the retry policy.  While one
\* invocation of the step of an action is under way, its element-resolution
\* wait has been performed at most 4 times, 5 times for the two keypad steps.
C17_NoDoubleWrap ==
    (InBlock /\ frames # <<>>)
        => waits <= (IF actions[idx].action_type \in {"keyboard_type", "keyboard_accept"}
                       THEN KeypadAttempts
                       ELSE DefaultAttempts)

\* C18: a keyboard_type step that returns has clicked the keypad buttons of
\* its digits d1..dn, each once and in order, and no other button, also when
\* an earlier try of the same invocation failed on a digit after the first.
C18_DigitsTypedOnce ==
    (InBlock /\ Ended /\ ret.kind = "ok" /\ Len(frames) = 1
        /\ Top.fn = "keyboard_type_digits")
        => clicks = actions[idx].keys_to_send

\* C19: run_block returns successful = true only if in one block attempt
\* every action of the list was dispatched and its step returned, in list
\* order: an attempt was made, it went through the whole list, and the last
\* step that ran returned.  For every value of `attempts`.
C19_SuccessMeansAllRan ==
    (InBlock /\ pc = "done" /\ result.successful = TRUE)
        => /\ i >= 1
           /\ idx = Len(actions) + 1
           /\ ret.kind = "ok"
           /\ touched

\* block attempt i is under way
Attempting ==
    pc \in {"rb_act", "rb_except", "w_for", "fn", "kb_digit", "ssk_send", "w_ret"}

\* calls of the hook after n failed attempts
HookCallsAfter(n) == IF before_retry_block THEN n ELSE 0

\* C20: ordering after a failed block attempt i.  The failure is recorded
\* (ok = False, last_error = its message) before the hook is called; the
\* hook, when given, has been called exactly once for the attempt when the
\* sleep begins; the sleep lasts exactly `delay`, the same for every i;
\* attempt i + 1 is under way only after i hooks and i sleeps; and a
\* successful attempt is followed by neither hook nor sleep.
C20_RetryOrdering ==
    InBlock
        => /\ blockSlept = blockSleeps * delay
           /\ (pc = "rb_hook"
                 => (~ok /\ last_error = Str(ret.exc)
                       /\ hookCalls = i - 1 /\ blockSleeps = i - 1))
           /\ (pc = "rb_sleep"
                 => (~ok /\ last_error = Str(ret.exc)
                       /\ hookCalls = HookCallsAfter(i) /\ blockSleeps = i - 1))
           /\ (pc = "rb_for"
                 => (hookCalls = HookCallsAfter(i) /\ blockSleeps = i))
           /\ (Attempting
                 => (hookCalls = HookCallsAfter(i - 1) /\ blockSleeps = i - 1))
           /\ ((pc \in {"rb_result", "done"} /\ ok /\ i >= 1)
                 => (hookCalls = HookCallsAfter(i - 1) /\ blockSleeps = i - 1))

C20_Witness ==
    /\ InBlock /\ pc = "done" /\ result.successful /\ i = 3
    /\ before_retry_block /\ hookCalls = 2
    /\ blockSleeps = 2 /\ blockSlept = 2 * delay

\* the state the _wrapped on top of the stack was called with
WrappedInput ==
    IF Len(frames) > 1 THEN frames[Len(frames) - 1].state
    ELSE IF InBlock THEN s
    ELSE state

\* the steps whose body returns a state with a new `last`
SetsLast ==
    { "wait_visible", "wait_clickable", "safe_send_keys",
      "select_option_by_value", "focus_input",
      "extract_first_pending_appointment", "extract_tab_date" }

\* a _wrapped that has just returned was on its k-th try after k - 1
\* retryable failures, had invoked the step k times, each time with the state
\* it was called with, and returns what the k-th invocation produced
ReturnedOnKth ==
    (Ended /\ ret.kind = "ok")
        => /\ 1 <= Top.i /\ Top.i <= Top.attempts
           /\ Top.calls = Top.i
           /\ (Top.i = 1 <=> Top.last_exc = NoExc)
           /\ (Top.last_exc # NoExc => Top.last_exc.kind \in Top.retry_on)
           /\ Top.state = WrappedInput
           /\ (Top.fn \in SetsLast => ret.state.last \in BodyValues(Top.fn))
           /\ (Top.fn \notin SetsLast => ret.state = WrappedInput)

\* C21: success on the k-th invocation.  When a wrapped step fails with
\* retryable failures k - 1 times and succeeds on invocation k, with_retries
\* has invoked it exactly k times (k <= attempts), every time with the same
\* unchanged input state, and returns the state invocation k produced; the
\* next thing that happens is the return to the caller, so the step is never
\* invoked again.
C21_SuccessOnKth ==
    [][ /\ ReturnedOnKth'
        /\ (Ended /\ ret.kind = "ok")
              => /\ Len(frames') = Len(frames) - 1
                 /\ \A k \in 1..Len(frames') : frames'[k].calls = frames[k].calls
      ]_vars

C21_Witness ==
    /\ entry = "pipe" /\ Ended /\ ret.kind = "ok"
    /\ Top.fn = "wait_visible" /\ Top.attempts = 4 /\ Top.calls = 4
    /\ Top.last_exc.kind = "TimeoutException"
    /\ Top.state = state /\ state.last = None /\ ret.state.last = "el1"

\* C22: the last failure is the one raised.  When every one of the
\* `attempts` invocations of a wrapped step failed with a retryable failure,
\* the failure _wrapped raises is the one of the last invocation, and its
\* message is what run_block holds as the error of that block attempt when
\* the hook and the block delay run.
C22_LastFailureRaised ==
    /\ (Ended /\ ret.via = "exhausted" /\ Top.attempts >= 1)
          => (Top.calls = Top.attempts /\ ret.exc = Top.raised)
    /\ (InBlock /\ pc \in {"rb_hook", "rb_sleep"} /\ ret.via = "exhausted")
          => (~ok /\ last_error = ret.exc.msg)

C22_Witness ==
    /\ InBlock /\ Ended /\ ret.via = "exhausted" /\ i = 2
    /\ Top.calls = 4 /\ Top.raised = ret.exc /\ ret.exc.msg = "stale"
    /\ last_error = "timeout"

\* C23: frame of the built-in steps.  The step of a wait_invisible,
\* switch_to_iframe, keyboard_type or keyboard_accept action returns the
\* state it was given; the step of every other recognized action returns a
\* state with the driver, scope and warnings it was given and a new `last`:
\* the resolved element, or the extracted record or string.
C23_StepFrame ==
    (InBlock /\ Ended /\ ret.kind = "ok" /\ Len(frames) = 1)
        => LET at == actions[idx].action_type IN
           IF at \in {"wait_invisible", "switch_to_iframe", "keyboard_type",
                      "keyboard_accept"}
             THEN ret.state = s
             ELSE /\ ret.state = [s EXCEPT !.last = ret.state.last]
                  /\ ret.state.last \in
                        (IF at = "extract_appointment_date"
                           THEN {"dict:" \o x : x \in Texts}
                         ELSE IF at = "extract_tab_date" THEN Texts
                         ELSE Elements)

C23_Witness ==
    /\ InBlock /\ Ended /\ ret.kind = "ok" /\ Len(frames) = 1
    /\ actions[idx].action_type = "extract_appointment_date"
    /\ ret.state.last = "dict:2025-11-15" /\ s.last = "el0"
    /\ ret.state.scope = "el0" /\ ret.state.warnings = <<"w0">>

\* run_block under a driver whose every operation returns or fails: each
\* step of the program that can be taken is taken in the end
FairSpec == Spec /\ WF_vars(Next)

\* the call returns (or, for pipe, raises) and the session is left
Terminates == <>Exited

\* C24: bounded work of run_block.  run_block makes at most `attempts` block
\* attempts; within an attempt the actions are dispatched one after another,
\* none twice; and while the step of an action is under way its underlying
\* driver operation has been invoked at most as many times as the attempt
\* count of its retry policy.
C24_BoundedWork ==
    InBlock
        => /\ i <= attempts
           /\ idx <= Len(actions) + 1
           /\ (frames # <<>> => frames[1].calls <= frames[1].attempts)
           /\ (frames # <<>> => waits <= frames[1].attempts)

\* C25: the result mirrors the returned state.  When run_block returns,
\* result.last_result is the `last` of the returned state and
\* result.warnings holds the warnings of the returned state, which are those
\* of the state given on entry, however many steps failed, blocks were
\* retried or hooks raised.
C25_ResultMirrorsState ==
    (InBlock /\ pc \in {"done", "exit"})
        => /\ result.last_result = ReturnedState.last
           /\ result.warnings = ReturnedState.warnings
           /\ result.warnings = state.warnings

C25_Witness ==
    /\ InBlock /\ pc = "done" /\ i = 3 /\ ~result.successful
    /\ retry.hook = "raised" /\ hookCalls = 3 /\ ret.via = "exhausted"
    /\ retry.partial.last = "el1"
    /\ result.last_result = "el0" /\ ReturnedState.last = "el0"
    /\ result.warnings = <<"w0">> /\ result.error = "timeout"

====
